---- MODULE Spec2Model ----
(***************************************************************************)
(* The SQL lexer of sqlparser/src/lexer.rs as a state machine.             *)
(*                                                                         *)
(* A character is a one-character string; the scalar value U+0000 is       *)
(* written "NUL".  A text is a sequence of characters.  The lexer's        *)
(* fields are the variables peekable, peeked, lines, cur_line, cur_pos     *)
(* and cur_ch; the operators below work on a record Lx of them and the     *)
(* actions are calls of the public methods next(), peek(), location().     *)
(***************************************************************************)
EXTENDS Integers, Sequences, FiniteSets, TLC

VARIABLES
    input,      \* the text the lexer was constructed from (never changes)
    peekable,   \* Peekable<Chars>: the characters not yet pulled
    peeked,     \* Option<Token>: <<>> or <<tok>>
    lines,      \* Vec<&str>: input.lines()
    cur_line,
    cur_pos,
    cur_ch,
    at_end,     \* history: the iterator has returned None (or the text was empty)
    last,       \* history: the last public call, its result and the state before it
    peeks,      \* history: peek() calls since the last next(), saturating at 2
    firstPeek,  \* history: the result and state of the first of those peeks, and
                \* the state before the latest of them
    eofSeen,    \* history: next() has returned an EOF token
    nexts       \* history: next() calls so far, saturating at Len(input) + 2

vars == <<input, peekable, peeked, lines, cur_line, cur_pos, cur_ch, at_end,
          last, peeks, firstPeek, eofSeen, nexts>>

----------------------------------------------------------------------------
(* Bounds of the model *)

MaxLen == 3

----------------------------------------------------------------------------
(* Characters *)

EMPTY_CHAR == "NUL"

LowerSeq ==
    <<"a", "b", "c", "d", "e", "f", "g", "h", "i", "j", "k", "l", "m",
      "n", "o", "p", "q", "r", "s", "t", "u", "v", "w", "x", "y", "z">>

UpperSeq ==
    <<"A", "B", "C", "D", "E", "F", "G", "H", "I", "J", "K", "L", "M",
      "N", "O", "P", "Q", "R", "S", "T", "U", "V", "W", "X", "Y", "Z">>

LowerLetters == {LowerSeq[i] : i \in DOMAIN LowerSeq}

UpperLetters == {UpperSeq[i] : i \in DOMAIN UpperSeq}

Digits == {"0", "1", "2", "3", "4", "5", "6", "7", "8", "9"}

is_ascii_alphabetic(c) == c \in LowerLetters \cup UpperLetters

is_ascii_digit(c) == c \in Digits

is_ascii_alphanumeric(c) == is_ascii_alphabetic(c) \/ is_ascii_digit(c)

\* char::is_whitespace on the characters the model uses (White_Space property)
is_whitespace(c) == c \in {" ", "\t", "\n", "\r", "\f"}

----------------------------------------------------------------------------
(* Tokens *)

Location(line_str, line, column) ==
    [line_str |-> line_str, line |-> line, column |-> column]

Token(token_type, literal, loc) ==
    [token_type |-> token_type, literal |-> literal, location |-> loc]

\* The keyword table of token.rs, as far as the specification and the tests
\* of lexer.rs show it: reserved words, matched without regard to case.
to_lowercase(c) ==
    IF c \in UpperLetters
    THEN LowerSeq[CHOOSE i \in DOMAIN UpperSeq : UpperSeq[i] = c]
    ELSE c

Keywords ==
    {<<"s", "e", "l", "e", "c", "t">>,
     <<"d", "i", "s", "t", "i", "n", "c", "t">>,
     <<"f", "r", "o", "m">>,
     <<"a", "s">>,
     <<"w", "h", "e", "r", "e">>,
     <<"a", "n", "d">>,
     <<"o", "r">>,
     <<"g", "r", "o", "u", "p">>,
     <<"b", "y">>,
     <<"l", "i", "m", "i", "t">>,
     <<"e", "x", "t", "r", "a", "c", "t">>,
     <<"y", "e", "a", "r">>}

lookup_ident(literal) ==
    IF [i \in DOMAIN literal |-> to_lowercase(literal[i])] \in Keywords
    THEN "Keyword"
    ELSE "Ident"

----------------------------------------------------------------------------
(* input.lines(): the text split at "\n", a "\r" before it dropped, no      *)
(* empty last line after a final "\n".                                      *)

StripCr(line) ==
    IF Len(line) > 0 /\ line[Len(line)] = "\r"
    THEN SubSeq(line, 1, Len(line) - 1)
    ELSE line

Newlines(text) == {i \in DOMAIN text : text[i] = "\n"}

\* the index of the k-th "\n" of the text (0 for k = 0)
NewlineAt(text, k) ==
    IF k = 0
    THEN 0
    ELSE CHOOSE i \in Newlines(text) : Cardinality({j \in Newlines(text) : j <= i}) = k

SplitLines(text) ==
    LET n     == Cardinality(Newlines(text))
        count == IF NewlineAt(text, n) < Len(text) THEN n + 1 ELSE n
    IN  [k \in 1..count |->
            IF k <= n
            THEN StripCr(SubSeq(text, NewlineAt(text, k - 1) + 1, NewlineAt(text, k) - 1))
            ELSE SubSeq(text, NewlineAt(text, k - 1) + 1, Len(text))]

----------------------------------------------------------------------------
(* The lexer.  A lexer state is a record                                    *)
(*   [peekable, peeked, lines, cur_line, cur_pos, cur_ch, at_end].          *)

new(text) ==
    [cur_ch   |-> IF text = <<>> THEN EMPTY_CHAR ELSE Head(text),
     peekable |-> IF text = <<>> THEN <<>> ELSE Tail(text),
     lines    |-> SplitLines(text),
     peeked   |-> <<>>,
     cur_line |-> 0,
     cur_pos  |-> 0,
     at_end   |-> (text = <<>>)]

location(s) ==
    Location(IF s.cur_line + 1 \in DOMAIN s.lines THEN s.lines[s.cur_line + 1] ELSE <<>>,
             s.cur_line,
             s.cur_pos)

read_char(s) ==
    IF s.peekable # <<>>
    THEN LET ch == Head(s.peekable)
         IN  [s EXCEPT !.peekable = Tail(s.peekable),
                       !.cur_ch   = ch,
                       !.cur_line = IF ch = "\n" THEN @ + 1 ELSE @,
                       !.cur_pos  = @ + 1]
    ELSE [s EXCEPT !.cur_ch = EMPTY_CHAR, !.at_end = TRUE]

peek_char(s) == IF s.peekable # <<>> THEN Head(s.peekable) ELSE EMPTY_CHAR

\* the loop conditions of read_literal and read_number
is_literal_char_no_digit(c) == is_ascii_alphabetic(c) \/ c = "_"

is_literal_char(c) == is_ascii_alphabetic(c) \/ is_ascii_alphanumeric(c) \/ c = "_"

is_number_char_no_dot(c) == is_ascii_digit(c)

is_number_char(c) == is_ascii_digit(c) \/ c = "."

\* read_literal and read_number give the accumulated text and the state after
RECURSIVE read_literal_loop(_, _)
read_literal_loop(s, literal) ==
    IF is_literal_char(s.cur_ch)
    THEN read_literal_loop(read_char(s), Append(literal, s.cur_ch))
    ELSE [text |-> literal, st |-> s]

read_literal_lower(s) ==
    LET r == read_literal_loop(s, <<>>)
    IN  [text |-> [i \in DOMAIN r.text |-> to_lowercase(r.text[i])], st |-> r.st]

read_literal(s) == read_literal_loop(s, <<>>)

RECURSIVE read_number_loop(_, _)
read_number_loop(s, number) ==
    IF is_number_char(s.cur_ch)
    THEN read_number_loop(read_char(s), Append(number, s.cur_ch))
    ELSE [text |-> number, st |-> s]

read_number(s) == read_number_loop(s, <<>>)

RECURSIVE skip(_)
skip(s) ==
    IF is_whitespace(s.cur_ch)
    THEN skip(read_char(s))
    ELSE IF s.cur_ch \in {"\n", "\t"}
    THEN skip(read_char(s))
    ELSE IF s.cur_ch = "\r"
    THEN LET s1 == read_char(s)
         IN  skip(IF s1.peekable # <<>> /\ Head(s1.peekable) = "\n"
                  THEN read_char(s1)
                  ELSE s1)
    ELSE s

\* the loop of the "--" arm: up to the newline or the sentinel
RECURSIVE skip_comment(_)
skip_comment(s) ==
    IF s.cur_ch # "\n" /\ s.cur_ch # EMPTY_CHAR
    THEN skip_comment(read_char(s))
    ELSE s

\* the loop of the quote arm: the text between the quotes, whether a closing
\* quote was found, and the state after
RECURSIVE read_string(_, _)
read_string(s, acc) ==
    LET s1 == read_char(s)
    IN  IF s1.cur_ch = "'"
        THEN [closed |-> TRUE, text |-> acc, st |-> s1]
        ELSE IF s1.cur_ch = EMPTY_CHAR
        THEN [closed |-> FALSE, text |-> acc, st |-> s1]
        ELSE read_string(s1, Append(acc, s1.cur_ch))

SingleCharTypes ==
    [c \in {"=", ";", ".", "(", ")", ",", "+", "{", "[", "]", "}", "*", "/", "?"} |->
        CASE c = "=" -> "Eq"
          [] c = ";" -> "Semicolon"
          [] c = "." -> "Period"
          [] c = "(" -> "LParen"
          [] c = ")" -> "RParen"
          [] c = "," -> "Comma"
          [] c = "+" -> "Plus"
          [] c = "{" -> "LBrace"
          [] c = "[" -> "LSquareBrace"
          [] c = "]" -> "RSquareBrace"
          [] c = "}" -> "RBrace"
          [] c = "*" -> "Asterisk"
          [] c = "/" -> "Slash"
          [] c = "?" -> "Question"]

\* the arms of '!', '<', '>': the compound operator when '=' follows
compound_never(s, literal, two, one) ==
    [tok |-> Token(one, literal, location(s)), st |-> read_char(s)]

compound_no_advance(s, literal, two, one) ==
    IF peek_char(s) = "="
    THEN LET s1 == read_char(s)
         IN  [tok |-> Token(two, <<s.cur_ch, "=">>, location(s1)), st |-> read_char(s1)]
    ELSE [tok |-> Token(one, literal, location(s)), st |-> s]

compound(s, literal, two, one) ==
    IF peek_char(s) = "="
    THEN LET s1 == read_char(s)
         IN  [tok |-> Token(two, <<s.cur_ch, "=">>, location(s1)), st |-> read_char(s1)]
    ELSE [tok |-> Token(one, literal, location(s)), st |-> read_char(s)]

\* next(): the token returned (tok), the state after (st) and, for the
\* proofs, the state in which the dispatch on cur_ch began (at).
RECURSIVE next(_)

\* next() from line 42 on: no token is buffered
scan(s) ==
    LET k       == skip(s)
        c       == k.cur_ch
        literal == <<c>>
        ret(r)  == [tok |-> r.tok, st |-> r.st, at |-> k]
    IN  IF c = EMPTY_CHAR
        THEN ret([tok |-> Token("EOF", <<>>, location(k)), st |-> read_char(k)])
        ELSE IF c = "!" THEN ret(compound(k, literal, "NotEq", "Bang"))
        ELSE IF c = "<" THEN ret(compound(k, literal, "Lte", "Lt"))
        ELSE IF c = ">" THEN ret(compound(k, literal, "Gte", "Gt"))
        ELSE IF c = ":"
        THEN LET s1 == read_char(k)
             IN  IF s1.cur_ch = ":"
                 THEN LET s2 == read_char(s1)
                      IN  ret([tok |-> Token("DoubleColon", <<":", ":">>, location(s2)),
                               st  |-> s2])
                 ELSE ret([tok |-> Token("Colon", literal, location(s1)),
                           st  |-> read_char(s1)])
        ELSE IF c = "-"
        THEN IF peek_char(k) = "-"
             THEN next(skip_comment(k))
             ELSE ret([tok |-> Token("Minus", literal, location(k)), st |-> read_char(k)])
        ELSE IF c \in DOMAIN SingleCharTypes
        THEN ret([tok |-> Token(SingleCharTypes[c], literal, location(k)),
                  st  |-> read_char(k)])
        ELSE IF c = "'"
        THEN LET r == read_string(k, <<>>)
             IN  IF r.closed
                 THEN ret([tok |-> Token("String", r.text, location(r.st)),
                           st  |-> read_char(r.st)])
                 ELSE ret([tok |-> Token("ILLIGAL", literal, location(r.st)), st |-> r.st])
        ELSE IF is_ascii_alphabetic(c)
        THEN LET r == read_literal(k)
             IN  ret([tok |-> Token(lookup_ident(r.text), r.text, location(r.st)),
                      st  |-> r.st])
        ELSE IF is_ascii_digit(c)
        THEN LET r == read_number(k)
             IN  ret([tok |-> Token(IF "." \in {r.text[i] : i \in DOMAIN r.text}
                                    THEN "Float" ELSE "Int",
                                    r.text, location(r.st)),
                      st  |-> r.st])
        ELSE ret([tok |-> Token("ILLIGAL", literal, location(k)), st |-> read_char(k)])

next_skip_buffer(s) == scan(s)

next_keep_buffer(s) ==
    IF s.peeked # <<>>
    THEN [tok |-> s.peeked[1], st |-> s, at |-> s]
    ELSE scan(s)

next(s) ==
    IF s.peeked # <<>>
    THEN [tok |-> s.peeked[1], st |-> [s EXCEPT !.peeked = <<>>], at |-> s]
    ELSE scan(s)

\* peek(): the token returned and the state after
peek_always_scan(s) ==
    LET r == next([s EXCEPT !.peeked = <<>>])
    IN  [tok |-> r.tok, st |-> [r.st EXCEPT !.peeked = <<r.tok>>], at |-> r.at]

peek(s) ==
    IF s.peeked = <<>>
    THEN LET r == next(s)
         IN  [tok |-> r.tok, st |-> [r.st EXCEPT !.peeked = <<r.tok>>], at |-> r.at]
    ELSE [tok |-> s.peeked[1], st |-> s, at |-> s]

----------------------------------------------------------------------------
(* The texts the lexer is constructed from: every text of at most MaxLen    *)
(* characters over Alphabet, and the texts of the tests of lexer.rs.        *)

Alphabet == {"=", "!", ":", "-", "'", "a", "s", "1", ".", "_", " ", "\n", EMPTY_CHAR}

\* test_float
FloatInput ==
    <<"1", ".", "2", "3">>

\* test_single_char_token
SingleCharInput ==
    <<"=", "-", "+", "(", ")", "{", "}", ",", ";", "*", "/", "<", ">", "!", "?", ":">>

\* test_two_char_token
TwoCharInput ==
    <<"=", "!", "=", "<", "=", ">", "=", ":", ":">>

\* test_next_token
NextTokenInput ==
    <<"s", "e", "l", "e", "c", "t", " ", "d", "i", "s", "t", "i", "n", "c", "t", " ",
      "*", " ", "f", "r", "o", "m", " ", "u", "s", "e", "r", "s", " ", "a", "s", " ",
      "u", "2", " ", "w", "h", "e", "r", "e", " ", "i", "d", " ", "=", " ", "?", " ",
      "a", "n", "d", " ", "n", "a", "m", "e", " ", "=", " ", "?", " ", "o", "r", " ",
      "a", "g", "e", " ", "=", " ", "1", "2", " ", "g", "r", "o", "u", "p", " ", "b",
      "y", " ", "n", "a", "m", "e", " ", "l", "i", "m", "i", "t", " ", "1", "0", ";">>

\* test_extract_keyword
ExtractInput ==
    <<"E", "X", "T", "R", "A", "C", "T", "(", "Y", "E", "A", "R", " ", "F", "R", "O",
      "M", " ", "d", "a", "t", "e", "_", "c", "o", "l", "u", "m", "n", ")">>

\* the unterminated string of the specification
UnterminatedInput ==
    <<"'", "a", "b", "c">>

\* two comment lines, then a token
CommentInput ==
    <<"-", "-", "a", "\n", "-", "-", " ", "b", "\n", "c", " ", "-", "d">>

\* string literals with a newline inside, and an empty one
StringInput ==
    <<"'", "a", "\n", "b", "'", " ", "'", "'", "x">>

\* a colon before other tokens
ColonInput ==
    <<"a", ":", "b", " ", ":", ":", "c">>

\* the comparison operators, alone and followed by other characters
CompareInput ==
    <<"<", " ", "<", "=", " ", ">", " ", ">", "=", " ", "!", " ", "!", "=", " ", "<",
      ">", " ", ">", "<", " ", "=", "<", " ", "=", ">">>

\* a number with two decimal points, then another token
MultiDotInput ==
    <<"1", ".", "2", ".", "3", " ", "4", "5", "+", "6", ".">>

\* newlines at the start of the text and between tokens
NewlineInput ==
    <<"\n", "a", "\n", "\n", "b", " ", "-", "-", "c", "\n", "d">>

\* characters that no arm of next() matches
IllegalInput ==
    <<"a", "#", "b", " ", "_", "c", "\\", "@">>

\* U+0000 inside the text
NulInput ==
    <<"a", "NUL", "b">>

\* U+0000 inside a comment line
NulCommentInput ==
    <<"-", "-", "x", "NUL", "y", "\n", "z">>

\* U+0000 inside a string literal
NulStringInput ==
    <<"'", "a", "NUL", "b", "'", " ", "c">>

FixedInputs ==
    {FloatInput,
     SingleCharInput,
     TwoCharInput,
     NextTokenInput,
     ExtractInput,
     UnterminatedInput,
     CommentInput,
     StringInput,
     ColonInput,
     CompareInput,
     MultiDotInput,
     NewlineInput,
     IllegalInput,
     NulInput,
     NulCommentInput,
     NulStringInput}

Inputs == FixedInputs \cup UNION {[1..n -> Alphabet] : n \in 0..MaxLen}

----------------------------------------------------------------------------
(* The state machine: the lexer after new(input), then any sequence of      *)
(* calls of next(), peek() and location().                                  *)

Lx ==
    [peekable |-> peekable, peeked |-> peeked, lines |-> lines,
     cur_line |-> cur_line, cur_pos |-> cur_pos, cur_ch |-> cur_ch,
     at_end   |-> at_end]

SetLx(s) ==
    /\ peekable' = s.peekable
    /\ peeked'   = s.peeked
    /\ lines'    = s.lines
    /\ cur_line' = s.cur_line
    /\ cur_pos'  = s.cur_pos
    /\ cur_ch'   = s.cur_ch
    /\ at_end'   = s.at_end

Min(a, b) == IF a < b THEN a ELSE b

Init ==
    /\ input \in Inputs
    /\ peekable = new(input).peekable
    /\ peeked   = new(input).peeked
    /\ lines    = new(input).lines
    /\ cur_line = new(input).cur_line
    /\ cur_pos  = new(input).cur_pos
    /\ cur_ch   = new(input).cur_ch
    /\ at_end   = new(input).at_end
    /\ last = [op |-> "new", tok |-> <<>>, loc |-> <<>>, pre |-> new(input),
               at |-> new(input), fresh |-> FALSE, run |-> <<>>, eofBefore |-> FALSE]
    /\ peeks = 0
    /\ firstPeek = <<>>
    /\ eofSeen = FALSE
    /\ nexts = 0

CallNext ==
    LET r == next(Lx)
    IN  /\ SetLx(r.st)
        /\ last' = [op |-> "next", tok |-> <<r.tok>>, loc |-> <<>>, pre |-> Lx,
                    at |-> r.at, fresh |-> (peeked = <<>>), run |-> firstPeek,
                    eofBefore |-> eofSeen]
        /\ peeks' = 0
        /\ firstPeek' = <<>>
        /\ eofSeen' = (eofSeen \/ r.tok.token_type = "EOF")
        /\ nexts' = Min(nexts + 1, Len(input) + 2)
        /\ UNCHANGED input

CallPeek ==
    LET r == peek(Lx)
    IN  /\ SetLx(r.st)
        /\ last' = [op |-> "peek", tok |-> <<r.tok>>, loc |-> <<>>, pre |-> Lx,
                    at |-> r.at, fresh |-> (peeked = <<>>), run |-> firstPeek,
                    eofBefore |-> eofSeen]
        /\ peeks' = Min(peeks + 1, 2)
        /\ firstPeek' = IF firstPeek = <<>>
                        THEN <<[tok |-> r.tok, st |-> r.st,
                                lastTok |-> r.tok, lastPre |-> Lx]>>
                        ELSE <<[firstPeek[1] EXCEPT !.lastTok = r.tok, !.lastPre = Lx]>>
        /\ UNCHANGED <<input, eofSeen, nexts>>

CallLocation ==
    /\ last' = [op |-> "location", tok |-> <<>>, loc |-> <<location(Lx)>>, pre |-> Lx,
                at |-> Lx, fresh |-> FALSE, run |-> firstPeek, eofBefore |-> eofSeen]
    /\ UNCHANGED <<input, peekable, peeked, lines, cur_line, cur_pos, cur_ch, at_end,
                   peeks, firstPeek, eofSeen, nexts>>

Next == CallNext \/ CallPeek \/ CallLocation

Spec == Init /\ [][Next]_vars

----------------------------------------------------------------------------
(* What the properties speak of *)

\* the number of characters the cursor has gone past in state s
Past(s) == Len(input) - Len(s.peekable) - (IF s.at_end THEN 0 ELSE 1)

\* the token the last call returned
LastTok == last.tok[1]

\* the last call was a next() or peek() that scanned fresh input
Scanned == last.op \in {"next", "peek"} /\ last.fresh

\* the character after the one under the cursor of s is c
NextCharIs(s, c) == Past(s) + 2 \in DOMAIN input /\ input[Past(s) + 2] = c

SameLineColumn(a, b) == a.line = b.line /\ a.column = b.column

\* the characters of the text a token stands for
Lexeme(tok) ==
    IF tok.token_type = "String" THEN <<"'">> \o tok.literal \o <<"'">> ELSE tok.literal

PunctTypes ==
    {SingleCharTypes[c] : c \in DOMAIN SingleCharTypes} \cup {"Bang", "Lt", "Gt", "Colon", "Minus"}

IdentChars == LowerLetters \cup UpperLetters \cup Digits \cup {"_"}

\* the last index of the maximal run of identifier characters that starts at b
RunEnd(b) ==
    CHOOSE e \in (b - 1)..Len(input) :
        /\ \A i \in b..e : input[i] \in IdentChars
        /\ e = Len(input) \/ input[e + 1] \notin IdentChars

\* the number of characters before the first "\n" at or after index b (all of
\* them if there is none)
LineEnd(b) ==
    IF \E i \in b..Len(input) : input[i] = "\n"
    THEN (CHOOSE i \in b..Len(input) :
              input[i] = "\n" /\ \A j \in b..(i - 1) : input[j] # "\n") - 1
    ELSE Len(input)

----------------------------------------------------------------------------
(* C1..C10 *)

\* C1: the location of every token that next() or peek() scans is the
\* position (line, column) the cursor had when the scan of that token began,
\* that is, the position of the token's first character.
C1_LocationIsTokenStart ==
    Scanned => SameLineColumn(LastTok.location, location(last.at))

\* C2: a single-character punctuation token consumes exactly one character;
\* a ':' not followed by ':' gives Colon and leaves the character after it
\* to the next token, and '::' gives DoubleColon and consumes both.
C2_SingleCharConsumesOne ==
    Scanned =>
        /\ LastTok.token_type \in PunctTypes => Past(Lx) = Past(last.at) + 1
        /\ last.at.cur_ch = ":" /\ ~last.at.at_end =>
              IF NextCharIs(last.at, ":")
              THEN LastTok.token_type = "DoubleColon" /\ Past(Lx) = Past(last.at) + 2
              ELSE LastTok.token_type = "Colon" /\ Past(Lx) = Past(last.at) + 1

\* C3: once next() has returned an EOF token, every later next() returns an
\* EOF token and no later call changes what location() reports.
C3_StableEOF ==
    last.eofBefore =>
        /\ last.op = "next" => LastTok.token_type = "EOF"
        /\ location(Lx) = location(last.pre)

\* C4: no character is lost: a scan that returns a token with a text (not
\* EOF, not illegal) moves the cursor from the token's first character past
\* exactly the characters of that text (and the quotes of a string literal),
\* and those characters are the ones of the input at that place.
C4_NoCharacterLost ==
    Scanned /\ LastTok.token_type \notin {"EOF", "ILLIGAL"} =>
        LET b == Past(last.at)
            n == Len(Lexeme(LastTok))
        IN  /\ Past(Lx) = b + n
            /\ b + n <= Len(input)
            /\ SubSeq(input, b + 1, b + n) = Lexeme(LastTok)

\* C5: a second or later peek() with no next() in between returns the token
\* the first peek() returned and leaves the lexer in the state the first
\* peek() left it in.
C5_PeekIdempotent ==
    last.op = "peek" /\ peeks = 2 =>
        /\ LastTok = firstPeek[1].tok
        /\ Lx = firstPeek[1].st

C5_Witness ==
    /\ last.op = "peek"
    /\ peeks = 2
    /\ LastTok.token_type = "NotEq"
    /\ peekable # <<>>

\* C6: a next() that follows a peek() returns the token that peek() returned,
\* which is the token next() returns from the state the lexer was in before
\* that peek().
C6_PeekThenNext ==
    last.op = "next" /\ last.run # <<>> =>
        /\ LastTok = last.run[1].lastTok
        /\ LastTok = next(last.run[1].lastPre).tok

C6_Witness ==
    /\ last.op = "next"
    /\ last.run # <<>>
    /\ LastTok.token_type = "Ident"
    /\ peekable # <<>>

CompoundOf == [c \in {"!", "<", ">"} |-> CASE c = "!" -> "NotEq" [] c = "<" -> "Lte" [] c = ">" -> "Gte"]

SingleOf == [c \in {"!", "<", ">"} |-> CASE c = "!" -> "Bang" [] c = "<" -> "Lt" [] c = ">" -> "Gt"]

TwoCharExpected == <<"Eq", "NotEq", "Lte", "Gte", "DoubleColon", "EOF">>

\* C7: on '!', '<' or '>' the scan returns the compound token and consumes
\* two characters when the next character is '=', and the single-character
\* token and one character otherwise; '=' is always Eq; and "=!=<=>=::" gives
\* Eq, NotEq, Lte, Gte, DoubleColon, EOF.
C7_GreedyTwoChar ==
    LET c == last.at.cur_ch
    IN  /\ Scanned /\ c \in {"!", "<", ">"} =>
              IF NextCharIs(last.at, "=")
              THEN /\ LastTok.token_type = CompoundOf[c]
                   /\ LastTok.literal = <<c, "=">>
                   /\ Past(Lx) = Past(last.at) + 2
              ELSE /\ LastTok.token_type = SingleOf[c]
                   /\ LastTok.literal = <<c>>
                   /\ Past(Lx) = Past(last.at) + 1
        /\ Scanned /\ c = "=" =>
              /\ LastTok.token_type = "Eq"
              /\ LastTok.literal = <<"=">>
              /\ Past(Lx) = Past(last.at) + 1
        /\ input = TwoCharInput /\ last.op = "next" /\ nexts \in 1..6 =>
              LastTok.token_type = TwoCharExpected[nexts]

C7_Witness ==
    /\ input = TwoCharInput
    /\ last.op = "next"
    /\ nexts = 6
    /\ LastTok.token_type = "EOF"

\* C8: a quote with no closing quote before the end of the input gives one
\* illegal token whose text is the quote and whose location is the position
\* of that opening quote, and the next() after it returns EOF.
C8_UnterminatedString ==
    /\ Scanned
    /\ last.at.cur_ch = "'"
    /\ \A i \in (Past(last.at) + 2)..Len(input) : input[i] # "'"
    =>  /\ LastTok.token_type = "ILLIGAL"
        /\ LastTok.literal = <<"'">>
        /\ SameLineColumn(LastTok.location, location(last.at))
        /\ last.op = "next" => next(Lx).tok.token_type = "EOF"

\* C9: when the scan meets "--", everything up to the next newline or the
\* end of the input is absorbed: the call returns the token (kind and text)
\* that a scan of the rest of the input after that line returns, EOF if there
\* is none, and leaves the cursor at or after the end of that line; a '-' not
\* followed by '-' gives Minus and consumes one character.
C9_CommentSkipping ==
    Scanned =>
        LET k == skip(last.pre)
            e == LineEnd(Past(k) + 1)
            t == next(new(SubSeq(input, e + 1, Len(input)))).tok
        IN  k.cur_ch = "-" /\ ~k.at_end =>
                IF NextCharIs(k, "-")
                THEN /\ LastTok.token_type = t.token_type
                     /\ LastTok.literal = t.literal
                     /\ Past(Lx) >= e
                ELSE LastTok.token_type = "Minus" /\ Past(Lx) = Past(k) + 1

\* C10: on a letter the scan returns one token whose text is the maximal run
\* of letters, digits and underscores that starts there, leaves the cursor on
\* the first character after the run, and gives the keyword tag when the
\* keyword lookup matches the text and Ident otherwise; "u2" and
\* "date_column" are single Ident tokens, "select" and "EXTRACT" keywords.
C10_IdentifierRun ==
    /\ Scanned /\ last.at.cur_ch \in LowerLetters \cup UpperLetters =>
          LET b == Past(last.at) + 1
          IN  /\ LastTok.literal = SubSeq(input, b, RunEnd(b))
              /\ Past(Lx) = RunEnd(b)
              /\ LastTok.token_type = lookup_ident(LastTok.literal)
              /\ LastTok.token_type \in {"Keyword", "Ident"}
    /\ input = NextTokenInput /\ last.op = "next" =>
          /\ nexts = 1 => LastTok.token_type = "Keyword"
                          /\ LastTok.literal = <<"s", "e", "l", "e", "c", "t">>
          /\ nexts = 7 => LastTok.token_type = "Ident" /\ LastTok.literal = <<"u", "2">>
    /\ input = ExtractInput /\ last.op = "next" =>
          /\ nexts = 1 => LastTok.token_type = "Keyword"
                          /\ LastTok.literal = <<"E", "X", "T", "R", "A", "C", "T">>
          /\ nexts = 5 => LastTok.token_type = "Ident"
                          /\ LastTok.literal =
                                <<"d", "a", "t", "e", "_", "c", "o", "l", "u", "m", "n">>

C10_Witness ==
    /\ input = NextTokenInput
    /\ last.op = "next"
    /\ nexts = 7
    /\ LastTok.literal = <<"u", "2">>
    /\ cur_ch = " "

----------------------------------------------------------------------------
(* C11..C20 *)

NumberChars == Digits \cup {"."}

\* the last index of the maximal run of digits and '.' that starts at b
NumberRunEnd(b) ==
    CHOOSE e \in (b - 1)..Len(input) :
        /\ \A i \in b..e : input[i] \in NumberChars
        /\ e = Len(input) \/ input[e + 1] \notin NumberChars

\* C11: on a digit the scan returns one token whose text is the maximal run
\* of digits and '.' that starts there, Float when the run holds a '.', Int
\* otherwise, and leaves the cursor on the first character after the run;
\* "1.23" gives one Float "1.23" and then EOF, "1.2.3" is a single Float.
C11_NumberRun ==
    /\ Scanned /\ last.at.cur_ch \in Digits =>
          LET b   == Past(last.at) + 1
              run == SubSeq(input, b, NumberRunEnd(b))
          IN  /\ LastTok.literal = run
              /\ Past(Lx) = NumberRunEnd(b)
              /\ LastTok.token_type =
                    IF \E i \in DOMAIN run : run[i] = "." THEN "Float" ELSE "Int"
    /\ input = FloatInput /\ last.op = "next" =>
          /\ nexts = 1 => LastTok.token_type = "Float"
                          /\ LastTok.literal = <<"1", ".", "2", "3">>
          /\ nexts = 2 => LastTok.token_type = "EOF"
    /\ input = MultiDotInput /\ last.op = "next" /\ nexts = 1 =>
          LastTok.token_type = "Float" /\ LastTok.literal = <<"1", ".", "2", ".", "3">>

C11_Witness ==
    /\ input = MultiDotInput
    /\ last.op = "next"
    /\ nexts = 1
    /\ LastTok.token_type = "Float"
    /\ LastTok.literal = <<"1", ".", "2", ".", "3">>
    /\ cur_ch = " "

\* C12: the text of every token that is not illegal is the piece of the
\* input it was scanned from: the characters from the token's first character
\* on, for a string literal the characters strictly between its two quotes,
\* for EOF the empty text.
C12_LiteralFidelity ==
    Scanned /\ LastTok.token_type # "ILLIGAL" =>
        LET b == Past(last.at)
            n == Len(LastTok.literal)
        IN  CASE LastTok.token_type = "EOF" -> n = 0
              [] LastTok.token_type = "String" ->
                    /\ b + n + 2 <= Len(input)
                    /\ input[b + 1] = "'"
                    /\ SubSeq(input, b + 2, b + n + 1) = LastTok.literal
                    /\ input[b + n + 2] = "'"
              [] OTHER ->
                    /\ n >= 1
                    /\ b + n <= Len(input)
                    /\ SubSeq(input, b + 1, b + n) = LastTok.literal

C12_Witness ==
    /\ Scanned
    /\ LastTok.token_type = "String"
    /\ LastTok.literal = <<"a", "\n", "b">>
    /\ cur_ch = " "

\* the cursor of a lexer state: current character, line index, column index
Cursor(s) == <<s.cur_ch, s.cur_line, s.cur_pos>>

\* C13 as stated: neither peek() nor location() changes the cursor, so
\* location() reports the same before and after a peek().
C13_PeekKeepsCursor ==
    last.op \in {"peek", "location"} =>
        /\ Cursor(Lx) = Cursor(last.pre)
        /\ location(Lx) = location(last.pre)

\* C13: location() changes nothing and returns the cursor's position; a
\* peek() made while a token is buffered leaves the cursor and what
\* location() reports unchanged; a peek() made with nothing buffered moves
\* the cursor exactly as the next() it calls does.
C13_PeekCursor ==
    /\ last.op = "location" =>
          /\ Lx = last.pre
          /\ last.loc = <<location(Lx)>>
    /\ last.op = "peek" /\ ~last.fresh =>
          /\ Cursor(Lx) = Cursor(last.pre)
          /\ location(Lx) = location(last.pre)
    /\ last.op = "peek" /\ last.fresh =>
          Cursor(Lx) = Cursor(next(last.pre).st)

C13_Witness ==
    /\ last.op = "peek"
    /\ ~last.fresh
    /\ LastTok.token_type = "Ident"
    /\ peekable # <<>>
    /\ location(Lx) = location(last.pre)
    /\ location(Lx).column > 0

\* C14: at most one token is buffered; a next() made while a token is
\* buffered returns that token, empties the buffer and scans nothing: the
\* cursor and the characters not yet pulled are as before the call.
C14_NextDrainsBuffer ==
    /\ Len(peeked) <= 1
    /\ last.op = "next" /\ ~last.fresh =>
          /\ Len(last.pre.peeked) = 1
          /\ LastTok = last.pre.peeked[1]
          /\ peeked = <<>>
          /\ Cursor(Lx) = Cursor(last.pre)
          /\ peekable = last.pre.peekable
          /\ at_end = last.pre.at_end

C14_Witness ==
    /\ last.op = "next"
    /\ ~last.fresh
    /\ LastTok.token_type = "Ident"
    /\ peeked = <<>>
    /\ peekable # <<>>
    /\ peekable = last.pre.peekable

\* the characters some scanning rule of the specification is about:
\* whitespace, punctuation, the quote, letters and digits
RuleChars ==
    {" ", "\t", "\n", "\r", "\f", "'", "!", "<", ">", ":", "-"}
        \cup DOMAIN SingleCharTypes \cup LowerLetters \cup UpperLetters \cup Digits

\* C15: a character of the input that no scanning rule is about gives an
\* illegal token whose text is that character and whose location is that
\* character's position, and the scan consumes exactly that character
\* (stated for a scan that skipped no comment on its way to the character).
C15_IllegalCharacter ==
    /\ Scanned
    /\ last.at = skip(last.pre)
    /\ ~last.at.at_end
    /\ last.at.cur_ch \notin RuleChars
    =>  /\ LastTok.token_type = "ILLIGAL"
        /\ LastTok.literal = <<last.at.cur_ch>>
        /\ SameLineColumn(LastTok.location, location(last.at))
        /\ Past(Lx) = Past(last.at) + 1

\* the index of the first quote after index b
FirstQuoteAfter(b) ==
    CHOOSE q \in (b + 1)..Len(input) :
        input[q] = "'" /\ \A i \in (b + 1)..(q - 1) : input[i] # "'"

\* C16: on a quote that a later quote follows, the scan returns one String
\* token whose text is the characters strictly between the opening quote and
\* the first quote after it, and leaves the cursor on the character right
\* after that closing quote.
C16_TerminatedString ==
    LET b == Past(last.at) + 1
    IN  /\ Scanned
        /\ ~last.at.at_end
        /\ last.at.cur_ch = "'"
        /\ \E i \in (b + 1)..Len(input) : input[i] = "'"
        =>  /\ LastTok.token_type = "String"
            /\ LastTok.literal = SubSeq(input, b + 1, FirstQuoteAfter(b) - 1)
            /\ Past(Lx) = FirstQuoteAfter(b)

\* C17: every newline consumed counts once, also the one that is the first
\* character: when the whole input is consumed the line index is the number
\* of newlines of the input, and a token that starts after k newlines is
\* scanned with a line index of at least k.
C17_LineTracking ==
    /\ at_end => cur_line = Cardinality(Newlines(input))
    /\ Scanned =>
          last.at.cur_line >= Cardinality({i \in 1..Past(last.at) : input[i] = "\n"})

\* C18: the column index is the number of characters the cursor has
\* consumed, the last character of the input included, so that the EOF token
\* of a text of n characters has column n.
C18_ColumnTracking ==
    /\ location(Lx).column = Past(Lx)
    /\ Scanned /\ LastTok.token_type = "EOF" /\ last.at.at_end =>
          LastTok.location.column = Len(input)

\* the text holds nothing but whitespace and "--" comment lines
OnlyBlank(text) ==
    \A i \in DOMAIN text :
        \/ is_whitespace(text[i])
        \/ \E j \in 1..i :
              /\ j + 1 <= Len(text)
              /\ text[j] = "-" /\ text[j + 1] = "-"
              /\ \A m \in j..i : text[m] # "\n"
              /\ \A m \in 1..(j - 1) :
                    is_whitespace(text[m]) \/ \E l \in (m + 1)..(j - 1) : text[l] = "\n"

\* C19: a scan that returns a token other than EOF consumes at least one
\* character, hence next() has returned EOF once it has been called
\* Len(input) + 1 times; a text of whitespace and comments only (or no text)
\* gives EOF on the first call.
C19_Progress ==
    /\ Scanned /\ LastTok.token_type # "EOF" => Past(Lx) > Past(last.pre)
    /\ nexts >= Len(input) + 1 => eofSeen
    /\ last.op = "next" /\ nexts = 1 /\ OnlyBlank(input) => LastTok.token_type = "EOF"

C19_Witness ==
    /\ input = CommentInput
    /\ last.op = "next"
    /\ nexts = 4
    /\ LastTok.token_type = "EOF"
    /\ ~last.eofBefore
    /\ at_end

\* C20: a scan returns EOF only when every character of the input has been
\* consumed, and reports a string as unterminated only when no quote follows
\* the opening one.
C20_EofMeansEnd ==
    Scanned =>
        /\ LastTok.token_type = "EOF" =>
              last.at.at_end /\ Past(last.at) = Len(input)
        /\ LastTok.token_type = "ILLIGAL" /\ last.at.cur_ch = "'" /\ ~last.at.at_end =>
              \A i \in (Past(last.at) + 2)..Len(input) : input[i] # "'"

====
